---- MODULE Spec2Model ----
(***************************************************************************)
(* Model of example-mock-server: example/services.py (BASE_URL, USERS_URL, *)
(* get_users) and the lettuce step definitions that drive it against the   *)
(* real server and against the mock server.                                *)
(*                                                                         *)
(* Strings that the code takes apart or puts together (URLs) are sequences *)
(* of one-character strings; urljoin is computed as Python 2's urlparse    *)
(* module computes it.                                                     *)
(***************************************************************************)
EXTENDS Integers, Sequences, FiniteSets, TLC

VARIABLES
    BASE_URL,        \* services.BASE_URL
    USERS_URL,       \* services.USERS_URL (entry of services.__dict__)
    pc,              \* position of the test run
    port,            \* world.mock_server_port
    servers,         \* ports on which a mock server is listening
    response,        \* world.response
    original,        \* the copy of the patched entry kept by patch.dict
    raised,          \* the exception propagating out of the current/last step
    step_result,     \* outcome of the last step as the runner records it
    invocations,     \* history: number of calls of get_users()
    sent,            \* history: number of GET requests put on the wire
    last_url,        \* history: target of the last GET request
    last_scope,      \* history: where the last get_users() call was made
    exchange,        \* history: what came back for the last GET request
    before_patch,    \* history: USERS_URL when the last override started
    parts            \* history: the components settings.BASE_URL was written from

vars == << BASE_URL, USERS_URL, pc, port, servers, response, original, raised,
           step_result, invocations, sent, last_url, last_scope, exchange,
           before_patch, parts >>

(***************************************************************************)
(* Bounds.                                                                 *)
(***************************************************************************)
MaxSegs == 3
MaxCalls == 3

(***************************************************************************)
(* Character strings.                                                      *)
(***************************************************************************)
Empty == << >>

s_http == << "h", "t", "t", "p" >>
s_https == << "h", "t", "t", "p", "s" >>
s_HTTPS == << "H", "T", "T", "P", "S" >>
s_ftp == << "f", "t", "p" >>
s_file == << "f", "i", "l", "e" >>
s_users == << "u", "s", "e", "r", "s" >>
s_dot == << "." >>
s_dotdot == << ".", "." >>
s_localhost == << "l", "o", "c", "a", "l", "h", "o", "s", "t" >>

Digits == << "0", "1", "2", "3", "4", "5", "6", "7", "8", "9" >>

DigitSet == { Digits[i] : i \in 1..10 }

LowerLetters == { "a", "b", "c", "d", "e", "f", "g", "h", "i", "j", "k", "l", "m",
                  "n", "o", "p", "q", "r", "s", "t", "u", "v", "w", "x", "y", "z" }

UpperLetters == { "H", "T", "P", "S" }

\* str.lower(), on the letters that occur
lower_char(c) ==
    CASE c = "H" -> "h"
      [] c = "T" -> "t"
      [] c = "P" -> "p"
      [] c = "S" -> "s"
      [] OTHER -> c

lower(s) == [ i \in 1..Len(s) |-> lower_char(s[i]) ]

\* s[i:] and s[:i] with Python's 0-based index i
From(s, i) == IF i >= Len(s) THEN Empty ELSE SubSeq(s, i + 1, Len(s))

UpTo(s, i) == IF i <= 0 THEN Empty ELSE SubSeq(s, 1, IF i > Len(s) THEN Len(s) ELSE i)

\* s.find(c, start): 0-based index of the first c at or after start, -1 if none
find(s, c, start) ==
    LET hits == { i \in start..(Len(s) - 1) : s[i + 1] = c }
    IN  IF hits = {} THEN -1 ELSE CHOOSE i \in hits : \A j \in hits : i <= j

\* s.rfind(c)
rfind(s, c) ==
    LET hits == { i \in 0..(Len(s) - 1) : s[i + 1] = c }
    IN  IF hits = {} THEN -1 ELSE CHOOSE i \in hits : \A j \in hits : i >= j

\* s.split(c): the sequence of pieces between the occurrences of c
RECURSIVE split(_, _)
split(s, c) ==
    LET i == find(s, c, 0)
    IN  IF i < 0 THEN << s >> ELSE << UpTo(s, i) >> \o split(From(s, i + 1), c)

\* c.join(segments)
RECURSIVE join(_, _)
join(c, segments) ==
    IF Len(segments) = 0 THEN Empty
    ELSE IF Len(segments) = 1 THEN segments[1]
    ELSE segments[1] \o << c >> \o join(c, Tail(segments))

\* str(n) for n >= 0, as '{port}'.format(port=n) writes it
RECURSIVE str(_)
str(n) == IF n < 10 THEN << Digits[n + 1] >> ELSE str(n \div 10) \o << Digits[(n % 10) + 1] >>

(***************************************************************************)
(* urlparse (Python 2 standard library), as imported by services.py.       *)
(***************************************************************************)
\* (the schemes of each list that matter here; the lists are longer)
uses_relative == { s_ftp, s_http, s_https, s_file, Empty }

uses_netloc == { s_ftp, s_http, s_https, s_file, Empty }

uses_params == { s_ftp, s_http, s_https, Empty }

scheme_chars == LowerLetters \cup UpperLetters \cup DigitSet \cup { "+", "-", "." }

\* _splitnetloc(url, 2): the netloc ends at the first of '/', '?', '#'
splitnetloc(url) ==
    LET ends == { i \in { find(url, "/", 2), find(url, "?", 2), find(url, "#", 2) } : i >= 0 }
        delim == IF ends = {} THEN Len(url) ELSE CHOOSE i \in ends : \A j \in ends : i <= j
    IN  << SubSeq(url, 3, delim), From(url, delim) >>

\* if '?' in url: url, query = url.split('?', 1)
split_query(scheme, netloc, url, fragment) ==
    LET q == find(url, "?", 0)
    IN  [ scheme |-> scheme, netloc |-> netloc,
          path |-> IF q >= 0 THEN UpTo(url, q) ELSE url,
          query |-> IF q >= 0 THEN From(url, q + 1) ELSE Empty,
          fragment |-> fragment ]

\* if allow_fragments and '#' in url: url, fragment = url.split('#', 1)
split_fragment(scheme, netloc, url) ==
    LET h == find(url, "#", 0)
    IN  split_query(scheme, netloc,
                    IF h >= 0 THEN UpTo(url, h) ELSE url,
                    IF h >= 0 THEN From(url, h + 1) ELSE Empty)

\* the tail of urlsplit, shared by its two branches: netloc, fragment, query
splitrest(scheme, url) ==
    IF UpTo(url, 2) = << "/", "/" >>
    THEN split_fragment(scheme, splitnetloc(url)[1], splitnetloc(url)[2])
    ELSE split_fragment(scheme, Empty, url)

urlsplit(url, scheme) ==
    LET i == find(url, ":", 0)
        rest == From(url, i + 1)
    IN  IF i > 0 /\ UpTo(url, i) = s_http
        THEN splitrest(lower(UpTo(url, i)), rest)
        ELSE IF /\ i > 0
                /\ \A k \in 1..i : url[k] \in scheme_chars
                /\ (rest = Empty \/ \E k \in 1..Len(rest) : rest[k] \notin DigitSet)
        THEN splitrest(lower(UpTo(url, i)), rest)
        ELSE splitrest(scheme, url)

\* _splitparams(url)
splitparams(url) ==
    LET i == IF find(url, "/", 0) >= 0 THEN find(url, ";", rfind(url, "/"))
             ELSE find(url, ";", 0)
    IN  IF i < 0 THEN << url, Empty >> ELSE << UpTo(url, i), From(url, i + 1) >>

\* the params of the last path segment, for the schemes that have them
with_params(t) ==
    LET p == IF t.scheme \in uses_params /\ find(t.path, ";", 0) >= 0
             THEN splitparams(t.path) ELSE << t.path, Empty >>
    IN  [ scheme |-> t.scheme, netloc |-> t.netloc, path |-> p[1], params |-> p[2],
          query |-> t.query, fragment |-> t.fragment ]

urlparse(url, scheme) == with_params(urlsplit(url, scheme))

\* url + '?' + query and url + '#' + fragment, when there are any
with_query_fragment(url, query, fragment) ==
    url \o (IF query # Empty THEN << "?" >> \o query ELSE Empty)
        \o (IF fragment # Empty THEN << "#" >> \o fragment ELSE Empty)

urlunsplit(scheme, netloc, url, query, fragment) ==
    with_query_fragment(
        (IF scheme # Empty THEN scheme \o << ":" >> ELSE Empty)
        \o (IF netloc # Empty
               \/ (scheme # Empty /\ scheme \in uses_netloc /\ UpTo(url, 2) # << "/", "/" >>)
            THEN << "/", "/" >> \o netloc
                 \o (IF url # Empty /\ UpTo(url, 1) # << "/" >> THEN << "/" >> ELSE Empty)
                 \o url
            ELSE url),
        query, fragment)

urlunparse(scheme, netloc, url, params, query, fragment) ==
    urlunsplit(scheme, netloc,
               IF params # Empty THEN url \o << ";" >> \o params ELSE url,
               query, fragment)

\* while '.' in segments: segments.remove('.')
remove_dots(segments) == SelectSeq(segments, LAMBDA x : x # s_dot)

\* the 'while 1' loop of urljoin: delete the first "x/.." pair, until there is none
RECURSIVE remove_pairs(_)
remove_pairs(segments) ==
    LET n == Len(segments) - 1
        hits == { i \in 1..(n - 1) :
                    /\ segments[i + 1] = s_dotdot
                    /\ segments[i] \notin { Empty, s_dotdot } }
    IN  IF hits = {} THEN segments
        ELSE LET i == CHOOSE i \in hits : \A j \in hits : i <= j
             IN  remove_pairs(SubSeq(segments, 1, i - 1) \o SubSeq(segments, i + 2, Len(segments)))

\* the end of urljoin: a trailing '..'
fix_tail(segments) ==
    IF segments = << Empty, s_dotdot >> THEN << Empty, Empty >>
    ELSE IF Len(segments) >= 2 /\ segments[Len(segments)] = s_dotdot
    THEN SubSeq(segments, 1, Len(segments) - 2) \o << Empty >>
    ELSE segments

\* the dot segments of urljoin's segment list
resolve_dots(segments) ==
    fix_tail(remove_pairs(remove_dots(
        IF segments[Len(segments)] = s_dot
        THEN [ segments EXCEPT ![Len(segments)] = Empty ] ELSE segments)))

\* a join that appends to the base path instead of replacing its last segment
all_but_last_kept(segments) == segments

\* bpath.split('/')[:-1]
all_but_last(segments) == SubSeq(segments, 1, Len(segments) - 1)

\* segments = bpath.split('/')[:-1] + path.split('/'), resolved and joined
join_segments(bpath, path) ==
    join("/", resolve_dots(all_but_last(split(bpath, "/")) \o split(path, "/")))

\* urljoin once both URLs are parsed (u with the base's scheme as default)
join_parsed(b, u, url) ==
    IF u.scheme # b.scheme \/ u.scheme \notin uses_relative THEN url
    ELSE IF u.scheme \in uses_netloc /\ u.netloc # Empty
    THEN urlunparse(u.scheme, u.netloc, u.path, u.params, u.query, u.fragment)
    ELSE IF UpTo(u.path, 1) = << "/" >>
    THEN urlunparse(u.scheme, IF u.scheme \in uses_netloc THEN b.netloc ELSE u.netloc,
                    u.path, u.params, u.query, u.fragment)
    ELSE IF u.path = Empty /\ u.params = Empty
    THEN urlunparse(u.scheme, IF u.scheme \in uses_netloc THEN b.netloc ELSE u.netloc,
                    b.path, b.params,
                    IF u.query = Empty THEN b.query ELSE u.query, u.fragment)
    ELSE urlunparse(u.scheme, IF u.scheme \in uses_netloc THEN b.netloc ELSE u.netloc,
                    join_segments(b.path, u.path), u.params, u.query, u.fragment)

join_with_base(b, url) == join_parsed(b, urlparse(url, b.scheme), url)

urljoin(base, url) ==
    IF base = Empty THEN url
    ELSE IF url = Empty THEN base
    ELSE join_with_base(urlparse(base, Empty), url)

(***************************************************************************)
(* Values.                                                                 *)
(***************************************************************************)
None == [ tag |-> "None" ]

\* an attribute of world that no step has set yet
Unset == [ tag |-> "unset" ]

JSON_UTF8 == "application/json; charset=utf-8"

HeaderMaps ==
    { ("Content-Type" :> JSON_UTF8) @@ ("Server" :> "s"),
      ("Content-Type" :> "text/html") @@ ("Server" :> "s"),
      ("Server" :> "s") }

Contents == { "[]", "[{\"id\": 1}]", "{}", "<html>" }

\* HTTP status codes, a few of each class with the edges of the 4xx-5xx range
StatusCodes == { 101, 200, 204, 304, 399, 400, 404, 500, 599 }

Response(status_code, headers, content) ==
    [ tag |-> "Response", status_code |-> status_code, headers |-> headers,
      content |-> content ]

Responses ==
    { Response(s, h, c) : s \in StatusCodes, h \in HeaderMaps, c \in Contents }

\* requests.get raising instead of returning (requests.exceptions)
TransportErrors ==
    { [ tag |-> "Error", type |-> "ConnectionError" ],
      [ tag |-> "Error", type |-> "Timeout" ] }

\* Response.json(): the decoded body, or ValueError
json(r) ==
    CASE r.content = "[]" -> [ type |-> "list", value |-> << >> ]
      [] r.content = "[{\"id\": 1}]" -> [ type |-> "list", value |-> << [ id |-> 1 ] >> ]
      [] r.content = "{}" -> [ type |-> "dict", value |-> << >> ]
      [] OTHER -> [ type |-> "ValueError", value |-> << >> ]

(***************************************************************************)
(* settings.BASE_URL, written out from its components.                     *)
(***************************************************************************)
Schemes == { s_http, s_HTTPS }

Netlocs == { << "h" >>, << "h", ":", "8" >> }

Segments == { Empty, << "a" >>, s_dot, s_dotdot }

RECURSIVE SegSeqs(_)
SegSeqs(n) ==
    IF n = 0 THEN { << >> }
    ELSE SegSeqs(n - 1) \cup { Append(s, x) : s \in { t \in SegSeqs(n - 1) : Len(t) = n - 1 }, x \in Segments }

Parts(segseqs) ==
    { [ scheme |-> sc, netloc |-> nl, segs |-> sg, params |-> pa, query |-> qu, fragment |-> fr ] :
        sc \in Schemes, nl \in Netlocs, sg \in segseqs,
        pa \in { Empty, << "p" >> }, qu \in { Empty, << "q" >> }, fr \in { Empty, << "f" >> } }

\* a path-less URL has no place for params
AllParts == { p \in Parts(SegSeqs(MaxSegs)) : p.segs = << >> => p.params = Empty }

\* the configurations the test runs are made with
RunParts ==
    { p \in Parts({ << >>, << << "a" >>, Empty >>, << << "a" >>, << "a" >> >> }) :
        /\ p.netloc = << "h" >>
        /\ p.params = Empty
        /\ p.fragment = Empty
        /\ (p.query # Empty <=> p.scheme = s_HTTPS) }

url_of(p) ==
    p.scheme \o << ":", "/", "/" >> \o p.netloc
    \o (IF p.segs = << >> THEN Empty ELSE << "/" >> \o join("/", p.segs))
    \o (IF p.params = Empty THEN Empty ELSE << ";" >> \o p.params)
    \o (IF p.query = Empty THEN Empty ELSE << "?" >> \o p.query)
    \o (IF p.fragment = Empty THEN Empty ELSE << "#" >> \o p.fragment)

(***************************************************************************)
(* The mock server (example.features.mocks) and the real server.           *)
(***************************************************************************)
Ports == { 8080, 49152 }

\* 'http://localhost:{port}/users'.format(port=world.mock_server_port)
mock_users_url_of(p) ==
    s_http \o << ":", "/", "/" >> \o s_localhost \o << ":" >> \o str(p) \o << "/" >> \o s_users

MockResponses ==
    { Response(200, ("Content-Type" :> JSON_UTF8) @@ ("Server" :> "s"), "[]"),
      Response(500, ("Content-Type" :> "text/html") @@ ("Server" :> "s"), "<html>") }

\* what requests.get(url) can come back with
Outcomes(url) ==
    IF \E p \in servers : url = mock_users_url_of(p)
    THEN MockResponses \cup TransportErrors
    ELSE Responses \cup TransportErrors

(***************************************************************************)
(* example/services.py                                                     *)
(***************************************************************************)
InitWith(configs) ==
    /\ parts \in configs
    /\ BASE_URL = Empty
    /\ USERS_URL = Empty
    /\ pc = "load"
    /\ port = 0
    /\ servers = {}
    /\ response = Unset
    /\ original = Empty
    /\ raised = "none"
    /\ step_result = "none"
    /\ invocations = 0
    /\ sent = 0
    /\ last_url = Empty
    /\ last_scope = "none"
    /\ exchange = Unset
    /\ before_patch = Empty

Init == InitWith(RunParts)

InitJoin == InitWith(AllParts)

\* the module body: BASE_URL = getattr(settings, 'BASE_URL'); USERS_URL = urljoin(BASE_URL, 'users')
services_import ==
    /\ pc = "load"
    /\ BASE_URL' = url_of(parts)
    /\ USERS_URL' = urljoin(BASE_URL', s_users)
    /\ pc' = "ready"
    /\ UNCHANGED << port, servers, response, original, raised, step_result, invocations,
                    sent, last_url, last_scope, exchange, before_patch, parts >>

\* an ok that is true of the 200-class statuses only
ok_success_class_only(r) == 200 <= r.status_code /\ r.status_code < 300

\* Response.ok: raise_for_status() raises for 400 <= status_code < 600
ok(r) == ~(400 <= r.status_code /\ r.status_code < 600)

\* a URL bound when get_users was defined (as a default argument would be)
request_url_at_definition == urljoin(BASE_URL, s_users)

\* the global USERS_URL is looked up when requests.get(USERS_URL) is evaluated
request_url == USERS_URL

\* a get_users that hands every response to its caller
get_users_return_any(r) == r

\* a get_users that hands over a copy without the headers
get_users_return_bare(r) == IF ok(r) THEN [ r EXCEPT !.headers = ("Server" :> "s") ] ELSE None

\* if response.ok: return response / else: return None
get_users_return(r) == IF ok(r) THEN r ELSE None

\* a get_users that keeps its last successful response and answers from it
get_users_cached(scope, x) ==
    /\ invocations' = invocations + 1
    /\ sent' = IF response.tag = "Response" THEN sent ELSE sent + 1
    /\ last_url' = request_url
    /\ last_scope' = scope
    /\ exchange' = x
    /\ IF response.tag = "Response"
       THEN /\ response' = response
            /\ raised' = "none"
       ELSE IF x.tag = "Response"
       THEN /\ response' = get_users_return(x)
            /\ raised' = "none"
       ELSE /\ response' = response
            /\ raised' = x.type

\* a get_users that catches the transport's exceptions and returns None
get_users_catching(scope, x) ==
    /\ invocations' = invocations + 1
    /\ sent' = sent + 1
    /\ last_url' = request_url
    /\ last_scope' = scope
    /\ exchange' = x
    /\ response' = IF x.tag = "Response" THEN get_users_return(x) ELSE None
    /\ raised' = "none"

\* get_users(), called from `scope`, with x what requests.get comes back with.
\* The value is assigned to world.response by the caller when the call returns.
get_users(scope, x) ==
    /\ invocations' = invocations + 1
    /\ sent' = sent + 1
    /\ last_url' = request_url
    /\ last_scope' = scope
    /\ exchange' = x
    /\ IF x.tag = "Response"
       THEN /\ response' = get_users_return(x)
            /\ raised' = "none"
       ELSE /\ response' = response
            /\ raised' = x.type

(***************************************************************************)
(* example/features/mock_server_steps.py                                   *)
(***************************************************************************)
\* @before.each_feature: a free port, and a mock server started on it
feature_setup ==
    /\ pc \in { "ready", "idle" }
    /\ \E p \in Ports \ servers :
          /\ port' = p
          /\ servers' = servers \cup { p }
    /\ pc' = "idle"
    /\ UNCHANGED << BASE_URL, USERS_URL, response, original, raised, step_result,
                    invocations, sent, last_url, last_scope, exchange, before_patch, parts >>

\* 'I send a mock request', up to the entry of the with block:
\* patch.dict.__enter__ copies the dict and sets the entry
mock_send_request_enter ==
    /\ pc = "idle"
    /\ invocations < MaxCalls
    /\ original' = USERS_URL
    /\ before_patch' = USERS_URL
    /\ USERS_URL' = mock_users_url_of(port)
    /\ raised' = "none"
    /\ pc' = "patched"
    /\ UNCHANGED << BASE_URL, port, servers, response, step_result, invocations, sent,
                    last_url, last_scope, exchange, parts >>

\* the body of the with block: world.response = get_users()
mock_send_request_body ==
    /\ pc = "patched"
    /\ \E x \in Outcomes(request_url) : get_users("mock", x)
    /\ pc' = "called"
    /\ UNCHANGED << BASE_URL, USERS_URL, port, servers, original, step_result,
                    before_patch, parts >>

\* an override undone after the body instead of in __exit__: skipped when the body raises
mock_send_request_exit_unless_raised ==
    /\ pc = "called"
    /\ USERS_URL' = IF raised = "none" THEN original ELSE USERS_URL
    /\ step_result' = IF raised = "none" THEN "passed" ELSE "failed"
    /\ pc' = "idle"
    /\ UNCHANGED << BASE_URL, port, servers, response, original, raised, invocations,
                    sent, last_url, last_scope, exchange, before_patch, parts >>

\* an override that is never undone
mock_send_request_exit_no_restore ==
    /\ pc = "called"
    /\ step_result' = IF raised = "none" THEN "passed" ELSE "failed"
    /\ pc' = "idle"
    /\ UNCHANGED << BASE_URL, USERS_URL, port, servers, response, original, raised,
                    invocations, sent, last_url, last_scope, exchange, before_patch, parts >>

\* patch.dict.__exit__: the entry is put back, whether or not the body raised,
\* and an exception of the body goes on to the runner
mock_send_request_exit ==
    /\ pc = "called"
    /\ USERS_URL' = original
    /\ step_result' = IF raised = "none" THEN "passed" ELSE "failed"
    /\ pc' = "idle"
    /\ UNCHANGED << BASE_URL, port, servers, response, original, raised, invocations,
                    sent, last_url, last_scope, exchange, before_patch, parts >>

\* the three assertions of 'I get a mock response'
mock_assertions_hold ==
    /\ response.tag = "Response"
    /\ "Content-Type" \in DOMAIN response.headers
    /\ response.headers["Content-Type"] = JSON_UTF8
    /\ ok(response)
    /\ json(response).type = "list"
    /\ json(response).value = << >>

mock_get_response ==
    /\ pc = "idle"
    /\ step_result' = IF mock_assertions_hold THEN "passed" ELSE "failed"
    /\ raised' = "none"
    /\ UNCHANGED << BASE_URL, USERS_URL, pc, port, servers, response, original,
                    invocations, sent, last_url, last_scope, exchange, before_patch, parts >>

(***************************************************************************)
(* example/features/real_server_steps.py                                   *)
(***************************************************************************)
\* 'I send a real request': world.response = get_users()
real_send_request ==
    /\ pc = "idle"
    /\ invocations < MaxCalls
    /\ \E x \in Outcomes(request_url) : get_users("real", x)
    /\ step_result' = IF raised' = "none" THEN "passed" ELSE "failed"
    /\ UNCHANGED << BASE_URL, USERS_URL, pc, port, servers, original, before_patch, parts >>

\* the three assertions of 'I get a real response'
real_assertions_hold ==
    /\ response.tag = "Response"
    /\ "Content-Type" \in DOMAIN response.headers
    /\ response.headers["Content-Type"] = JSON_UTF8
    /\ ok(response)
    /\ json(response).type = "list"

real_get_response ==
    /\ pc = "idle"
    /\ step_result' = IF real_assertions_hold THEN "passed" ELSE "failed"
    /\ raised' = "none"
    /\ UNCHANGED << BASE_URL, USERS_URL, pc, port, servers, response, original,
                    invocations, sent, last_url, last_scope, exchange, before_patch, parts >>

Next ==
    \/ services_import
    \/ feature_setup
    \/ mock_send_request_enter
    \/ mock_send_request_body
    \/ mock_send_request_exit
    \/ mock_get_response
    \/ real_send_request
    \/ real_get_response

Spec == Init /\ [][Next]_vars

NextJoin == services_import

SpecJoin == InitJoin /\ [][NextJoin]_vars

(***************************************************************************)
(* Properties.                                                             *)
(***************************************************************************)
s_mock_8080 ==
    << "h", "t", "t", "p", ":", "/", "/", "l", "o", "c", "a", "l", "h", "o", "s", "t",
       ":", "8", "0", "8", "0", "/", "u", "s", "e", "r", "s" >>

s_mock_49152 ==
    << "h", "t", "t", "p", ":", "/", "/", "l", "o", "c", "a", "l", "h", "o", "s", "t",
       ":", "4", "9", "1", "5", "2", "/", "u", "s", "e", "r", "s" >>

MockUrlText(p) == IF p = 8080 THEN s_mock_8080 ELSE s_mock_49152

SuccessClass(x) == 200 <= x.status_code /\ x.status_code <= 299

ErrorClass(x) == 400 <= x.status_code /\ x.status_code <= 599

\* the response has what Section 6 expects of the users endpoint
KeepsInterface(x) ==
    /\ "Content-Type" \in DOMAIN x.headers
    /\ x.headers["Content-Type"] = JSON_UTF8
    /\ x.content \in { "[]", "[{\"id\": 1}]" }

\* C1: when the exchange of the last get_users() call ended with a status of 400
\* or above, the call returned None, and None carries no status, headers or body.
C1_NonSuccessIsNone ==
    (exchange.tag = "Response" /\ exchange.status_code >= 400)
        => (response = None /\ DOMAIN response = { "tag" })

C1_Witness ==
    /\ exchange.tag = "Response"
    /\ exchange.status_code = 500
    /\ last_scope = "mock"
    /\ pc = "idle"
    /\ response = None

C3_AsClaimed ==
    exchange.tag = "Response"
        => /\ (response = exchange <=> SuccessClass(exchange))
           /\ (~SuccessClass(exchange) => response = None)

\* C3, amended: the outcome has two values and the status alone decides it:
\* None exactly for the statuses 400..599, the response itself for every other
\* status, 1xx and 3xx included.
C3_OutcomeByStatus ==
    exchange.tag = "Response"
        => /\ response \in { exchange, None }
           /\ (response = None <=> ErrorClass(exchange))
           /\ (response = exchange <=> ~ErrorClass(exchange))

C3_Witness ==
    /\ exchange.tag = "Response"
    /\ exchange.status_code = 304
    /\ response = exchange
    /\ pc = "idle"

\* C4: once the with block of 'I send a mock request' is left, USERS_URL is what
\* it was before the override, whichever way get_users() ended.
C4_OverrideUndone ==
    (pc = "idle" /\ before_patch # Empty) => USERS_URL = before_patch

C4_Witness ==
    /\ pc = "idle"
    /\ last_scope = "mock"
    /\ exchange.tag = "Error"
    /\ step_result = "failed"
    /\ before_patch # Empty
    /\ USERS_URL = before_patch
    /\ USERS_URL # MockUrlText(port)

\* C5: as many requests have been sent as get_users() has been called, and what
\* a call returned comes from the response to its own request.
C5_OneRequestPerCall ==
    /\ sent = invocations
    /\ exchange.tag = "Response" => response \in { exchange, None }

C5_Witness ==
    /\ invocations >= 2
    /\ sent = invocations
    /\ exchange.tag = "Response"
    /\ exchange.status_code = 404
    /\ response = None

\* C6: a request made inside the override went to http://localhost:<port>/users,
\* a request made outside it went to the configured Users URL.
C6_UrlReadAtCallTime ==
    /\ (pc = "called" /\ last_scope = "mock") => last_url = MockUrlText(port)
    /\ last_scope = "mock" => \E p \in servers : last_url = MockUrlText(p)
    /\ last_scope = "real" => last_url = urljoin(url_of(parts), s_users)

C6_Witness ==
    /\ pc = "called"
    /\ last_scope = "mock"
    /\ invocations = 2
    /\ port = 49152
    /\ last_url = s_mock_49152
    /\ exchange \in MockResponses

s_https_h8_a_users ==
    << "h", "t", "t", "p", "s", ":", "/", "/", "h", ":", "8", "/", "a", "/",
       "u", "s", "e", "r", "s" >>

\* a scheme in the lower case that URLs are normalised to
Canon(s) == IF s = s_HTTPS THEN s_https ELSE s

DotFree(segs) == \A i \in 1..Len(segs) : segs[i] \notin { s_dot, s_dotdot }

Dir(segs) == IF segs = << >> THEN << >> ELSE SubSeq(segs, 1, Len(segs) - 1)

\* each segment followed by '/'
RECURSIVE DirText(_)
DirText(segs) ==
    IF segs = << >> THEN Empty ELSE segs[1] \o << "/" >> \o DirText(Tail(segs))

Root(p) == Canon(p.scheme) \o << ":", "/", "/" >> \o p.netloc \o << "/" >>

EndsWith(s, e) == Len(s) >= Len(e) /\ SubSeq(s, Len(s) - Len(e) + 1, Len(s)) = e

StartsWith(s, b) == Len(s) >= Len(b) /\ SubSeq(s, 1, Len(b)) = b

\* C7: once services.py is loaded, USERS_URL is an absolute URL with the scheme
\* and host of BASE_URL, without query or fragment, ending in the segment 'users';
\* 'users' stands in the place of the last path segment of the base (for a base
\* path without '.' and '..' segments before its last one the URL is exactly
\* scheme://host/<directory>/users), and it is appended to the base path only
\* when that path ends in '/'.
C7_UsersUrlIsTheJoin ==
    pc # "load"
        => /\ BASE_URL = url_of(parts)
           /\ StartsWith(USERS_URL, Root(parts))
           /\ EndsWith(USERS_URL, << "/" >> \o s_users)
           /\ \A i \in 1..Len(USERS_URL) : USERS_URL[i] \notin { "?", "#", ";" }
           /\ DotFree(Dir(parts.segs))
                => USERS_URL = Root(parts) \o DirText(Dir(parts.segs)) \o s_users
           /\ (parts.segs # << >> /\ DotFree(parts.segs))
                => (USERS_URL = Root(parts) \o join("/", parts.segs) \o s_users
                      <=> parts.segs[Len(parts.segs)] = Empty)

C7_Witness ==
    /\ pc = "ready"
    /\ parts.scheme = s_HTTPS
    /\ parts.segs = << << "a" >>, << "a" >> >>
    /\ parts.query # Empty
    /\ parts.fragment # Empty
    /\ USERS_URL = s_https_h8_a_users

\* C8: a get_users() call whose GET fails in the transport raises that failure:
\* nothing is assigned to world.response, no value is returned in its place, and
\* BASE_URL and USERS_URL are as they were before the call.
C8_TransportFaultPropagates ==
    [][ (invocations' = invocations + 1 /\ exchange'.tag = "Error")
          => /\ raised' = exchange'.type
             /\ raised' # "none"
             /\ response' = response
             /\ USERS_URL' = USERS_URL
             /\ BASE_URL' = BASE_URL ]_vars

C8_Witness ==
    /\ exchange.tag = "Error"
    /\ raised = "Timeout"
    /\ response.tag = "Response"
    /\ step_result = "failed"
    /\ last_scope = "real"
    /\ pc = "idle"

\* C9: outside the override USERS_URL is the join of BASE_URL with 'users' made
\* when services.py was loaded; BASE_URL is never written after the load, and
\* USERS_URL is written only on entering and on leaving the with block of
\* 'I send a mock request'.
C9_OnlyTheOverrideWrites ==
    /\ [](pc \in { "ready", "idle" }
            => /\ BASE_URL = url_of(parts)
               /\ USERS_URL = urljoin(BASE_URL, s_users))
    /\ [][ /\ pc # "load" => BASE_URL' = BASE_URL
           /\ USERS_URL' # USERS_URL
                => \/ pc = "load"
                   \/ pc = "idle" /\ pc' = "patched"
                   \/ pc = "called" /\ pc' = "idle" ]_vars

C9_Witness ==
    /\ pc = "idle"
    /\ before_patch # Empty
    /\ last_scope = "real"
    /\ invocations = 2
    /\ USERS_URL = urljoin(BASE_URL, s_users)
    /\ last_url = USERS_URL

====
